---- MODULE Spec2Model ----
(***************************************************************************)
(* State-machine model of KalmanFilterModel                                *)
(* (src/demo/models/kalman-filter/model.py): the adaptive Kalman estimator *)
(* behind load(), metadata() and predict().                                *)
(*                                                                         *)
(* float64 values are fixed-point integers, one scale per kind of          *)
(* quantity, plus the value NaN, which every arithmetic operator           *)
(* propagates the way IEEE-754 and numpy do:                               *)
(*   observations, state x, innovations y : ValScale units per 1.0         *)
(*   covariances P and R, variances       : VarScale units per 1.0         *)
(*   process noise Q                      : QScale units per 1.0           *)
(*   confidence                           : ConfScale units per 1.0        *)
(*                                                                         *)
(* The dense linear algebra of filterpy's KalmanFilter.update (gain and    *)
(* posterior covariance) is not evaluated.  Its finite results range over  *)
(* representative values (UpdateOutcomes); what is tracked exactly is      *)
(* which of its results are NaN.  Posterior covariances are taken from the *)
(* family a*I + e*(J - I) (one diagonal value, one off-diagonal value),    *)
(* for which eigh has a closed form; Q stays in the family diag(d) +       *)
(* e*(J - I) under every operation the code applies to it.                 *)
(***************************************************************************)
EXTENDS Integers, Sequences, FiniteSets, TLC

(* ---------------------------------------------------------------- bounds *)
Slots == 2            \* predict() coroutines that may be in flight at once
MaxCalls == 3         \* predict() requests per behaviour of Spec
MaxLoads == 2         \* load() calls per behaviour
MaxBatches == 6       \* predict() requests per behaviour of SpecRun
DriftBatches == 240   \* predict() requests per behaviour of SpecDrift
MaxLen == 7           \* longest series handed to the preprocessing functions
BatchLen == 10        \* ticks per request of SpecRun and SpecDrift
StableTicks == 50     \* ticks of the shorter request of SpecStable
SplitLen == 11        \* longest series of SpecSplit

(* ------------------------------------------------------ number encoding *)
NaN == -999999999
ValScale == 100
VarScale == 10000000
QScale == 1000000000
ConfScale == 1000000

(* ---------------------------------------------------- program constants *)
state_dim == 5
obs_dim == 3
window_maxlen == 50
min_observations_for_adaptation == 20
adaptation_interval == 10
max_variance == 10 * VarScale
min_variance == 10
variance_reset_threshold == 100 * VarScale
max_process_noise == QScale \div 10
min_process_noise == 1000
missing_value_threshold == 15
outlier_threshold == 3
expected_arity == 3

(* ------------------------------------------------- NaN-aware arithmetic *)
Quot(a, b) == IF a >= 0 THEN a \div b ELSE -((-a) \div b)

NAdd(a, b) == IF a = NaN \/ b = NaN THEN NaN ELSE a + b
NSub(a, b) == IF a = NaN \/ b = NaN THEN NaN ELSE a - b
NAbs(a) == IF a = NaN THEN NaN ELSE IF a < 0 THEN -a ELSE a
\* comparisons with NaN are false
NGt(a, b) == a # NaN /\ b # NaN /\ a > b

\* np.clip(v, lo, hi) = minimum(maximum(v, lo), hi); a NaN operand gives NaN
Clip(v, lo, hi) ==
    IF v = NaN \/ lo = NaN \/ hi = NaN THEN NaN
    ELSE IF v < lo THEN lo ELSE IF v > hi THEN hi ELSE v

\* np.maximum(a, b): NaN-propagating
NMax(a, b) == IF a = NaN \/ b = NaN THEN NaN ELSE IF a >= b THEN a ELSE b

\* s[lo] + ... + s[hi], by halves
RECURSIVE SumRange(_, _, _)
SumRange(s, lo, hi) ==
    IF lo > hi THEN 0
    ELSE IF lo = hi THEN s[lo]
    ELSE LET mid == (lo + hi) \div 2
         IN SumRange(s, lo, mid) + SumRange(s, mid + 1, hi)
SumSeq(s) == SumRange(s, 1, Len(s))

HasNaNSeq(s) == \E k \in 1..Len(s) : s[k] = NaN
HasNaN(M) == \E r \in 1..Len(M) : HasNaNSeq(M[r])

\* floor of the square root, by bisection on [lo, hi]
RECURSIVE SqrtBetween(_, _, _)
SqrtBetween(n, lo, hi) ==
    IF lo >= hi THEN lo
    ELSE LET mid == (lo + hi + 1) \div 2
         IN IF mid * mid <= n THEN SqrtBetween(n, mid, hi)
            ELSE SqrtBetween(n, lo, mid - 1)
ISqrt(n) == SqrtBetween(n, 0, 46340)

(* -------------------------------------------------------------- matrices *)
EyeEntry(r, c, s) == IF r = c THEN s ELSE 0
Eye(n, s) == [r \in 1..n |-> [c \in 1..n |-> EyeEntry(r, c, s)]]
NaNMatrix(n) == [r \in 1..n |-> [c \in 1..n |-> NaN]]
\* the matrix a*I + e*(J - I)
Uniform(n, a, e) == [r \in 1..n |-> [c \in 1..n |-> IF r = c THEN a ELSE e]]
Trace(M) == IF HasNaN(M) THEN NaN ELSE SumSeq([r \in 1..Len(M) |-> M[r][r]])
Diag(M) == [r \in 1..Len(M) |-> M[r][r]]

(* ------------------------------------------- _setup_kalman_filter values *)
\* filter.F, entries in hundredths
F_seed ==
    << <<100, 100, 10,  5,  3>>,
       <<  0,  95,  5,  2,  1>>,
       << 20,   0, 95, 10,  5>>,
       << 15,   5, 10, 90, 10>>,
       << 10,   2,  5, 15, 92>> >>
FScale == 100

\* filter.H, entries in tenths
H_seed ==
    << <<8, 1, 0, 1, 0>>,
       <<0, 0, 10, 0, 0>>,
       <<0, 0, 0, 10, 0>> >>
HScale == 10

\* filter.Q = eye(5) * 0.001, Q[1,1] = 0.0001, Q[4,4] = 0.01
Q_seed ==
    [r \in 1..state_dim |-> [c \in 1..state_dim |->
        IF r # c THEN 0
        ELSE IF r = 2 THEN QScale \div 10000
        ELSE IF r = 5 THEN QScale \div 100
        ELSE QScale \div 1000]]

\* filter.R = diag([0.01, 0.01, 0.05])
R_seed ==
    [r \in 1..obs_dim |-> [c \in 1..obs_dim |->
        IF r # c THEN 0
        ELSE IF r = 3 THEN VarScale \div 20
        ELSE VarScale \div 100]]

\* filter.P = eye(5) * 1.0
P_seed == Eye(state_dim, VarScale)

\* filter.x = [0.3, 0.0, 0.5, 1.0, 0.0]
x_seed == <<30, 0, 50, 100, 0>>

\* KalmanFilter(dim_x, dim_z) starts with y = zeros((dim_z, 1))
y_seed == <<0, 0, 0>>

(* ------------------------------------------------------ filterpy's steps *)
\* (M x)[r] for a matrix with entries in 1/s; 0 * NaN is NaN, so one NaN
\* component of x makes every component of the product NaN
MatVec(M, v, s) ==
    [r \in 1..Len(M) |->
        IF HasNaNSeq(v) THEN NaN
        ELSE Quot(SumSeq([c \in 1..Len(v) |-> M[r][c] * v[c]]), s)]

\* KalmanFilter.predict(): x = F x
PredictState(Fm, xv) == MatVec(Fm, xv, FScale)

\* KalmanFilter.update(z): y = z - H x
Innovation(Hm, xv, z) ==
    LET hx == MatVec(Hm, xv, HScale)
    IN [r \in 1..obs_dim |-> NSub(z[r], hx[r])]

\* Representative Kalman gains K = P H' inv(S), entries in thousandths:
\* the gain that ignores the observation and the gain after which H x = z.
GainScale == 1000
KZero == [r \in 1..state_dim |-> [c \in 1..obs_dim |-> 0]]
KDirect ==
    << <<1250, 0, -125>>,
       <<0, 0, 0>>,
       <<0, 1000, 0>>,
       <<0, 0, 1000>>,
       <<0, 0, 0>> >>

\* KalmanFilter.update(z): x = x + K y.  S = H P H' + R and K are NaN as
\* soon as the predicted P = F P F' + Q or R holds a NaN, and then so is x.
UpdateState(xv, yv, K, Pm, Qm, Rm) ==
    LET ky == MatVec(K, yv, GainScale)
    IN [r \in 1..state_dim |->
        IF HasNaN(Pm) \/ HasNaN(Qm) \/ HasNaN(Rm) THEN NaN
        ELSE NAdd(xv[r], ky[r])]

\* Representative posterior covariances (I - K H) P (I - K H)' + K R K':
\* a converged one, one with negative cross-covariances and a diagonal
\* under min_variance, and one over max_variance (R large, gain near 0).
PostConverged == Uniform(state_dim, VarScale \div 2, VarScale \div 10)
PostTiny == Uniform(state_dim, 4, -1)
PostWide == Uniform(state_dim, 20 * VarScale, 12 * VarScale)

\* What one update() may produce: a gain with the posterior that goes with it
\* (a small posterior with the gain that follows the observation, a wide one
\* with the gain that ignores it).
UpdateOutcomes ==
    { [K |-> KDirect, P |-> PostConverged],
      [K |-> KDirect, P |-> PostTiny],
      [K |-> KZero, P |-> PostWide] }
\* the single outcome long runs are explored with
SteadyOutcomes == { [K |-> KDirect, P |-> PostConverged] }

\* predict() then update(): P = F P F' + Q, then the posterior.  The result
\* depends on no observation; it is NaN exactly when P, Q or R holds a NaN.
UpdateCovariance(Pm, Qm, Rm, post) ==
    IF HasNaN(Pm) \/ HasNaN(Qm) \/ HasNaN(Rm) THEN NaNMatrix(state_dim) ELSE post

(* ------------------------------------------------------- preprocessing *)
NaNCount(arr) == Cardinality({k \in 1..Len(arr) : arr[k] = NaN})

\* np.where(~mask, np.arange(n), 0) followed by np.maximum.accumulate:
\* the 0-based index of the last valid element at or before k, and 0 when
\* there is none
LastValidIndex(arr, k) ==
    LET valid == {j \in 2..k : arr[j] # NaN}
    IN IF valid = {} THEN 0
       ELSE (CHOOSE j \in valid : \A other \in valid : other <= j) - 1

\* np.nanmean(arr): the mean of the elements that are not NaN, NaN if none
NanMean(arr) ==
    LET valid == {k \in 1..Len(arr) : arr[k] # NaN}
    IN IF valid = {} THEN NaN
       ELSE Quot(SumSeq([k \in 1..Len(arr) |-> IF arr[k] = NaN THEN 0 ELSE arr[k]]),
                 Cardinality(valid))

\* fill_missing: 0/0 on an empty series is NaN, and NaN < 0.15 is false
fill_missing(arr) ==
    IF Len(arr) > 0 /\ NaNCount(arr) * 100 < missing_value_threshold * Len(arr)
    THEN [k \in 1..Len(arr) |-> arr[LastValidIndex(arr, k) + 1]]
    ELSE [k \in 1..Len(arr) |-> IF arr[k] = NaN THEN NanMean(arr) ELSE arr[k]]

\* np.mean(arr): NaN for an empty series or one holding a NaN
Mean(arr) ==
    IF Len(arr) = 0 \/ HasNaNSeq(arr) THEN NaN ELSE Quot(SumSeq(arr), Len(arr))

\* np.std(arr): population standard deviation
Std(arr) ==
    IF Len(arr) = 0 \/ HasNaNSeq(arr) THEN NaN
    ELSE LET m == Mean(arr)
         IN ISqrt(SumSeq([k \in 1..Len(arr) |->
                            ((arr[k] - m) * (arr[k] - m)) \div Len(arr)]))

\* cap_outliers: clip to mean -+ outlier_threshold * std
cap_outliers(arr) ==
    LET mean == Mean(arr)
        std == Std(arr)
        lower == IF std = NaN THEN NaN ELSE mean - outlier_threshold * std
        upper == IF std = NaN THEN NaN ELSE mean + outlier_threshold * std
    IN [k \in 1..Len(arr) |-> Clip(arr[k], lower, upper)]

ClipSeq(arr, lo, hi) == [k \in 1..Len(arr) |-> Clip(arr[k], lo, hi)]

\* _preprocess_inputs: (cpu, memory, load_avg) after filling, capping and
\* the domain constraints
preprocess_inputs(cpu, memory, load_avg) ==
    << ClipSeq(cap_outliers(fill_missing(cpu)), 0, ValScale),
       ClipSeq(cap_outliers(fill_missing(memory)), 0, ValScale),
       ClipSeq(cap_outliers(fill_missing(load_avg)), 0, 100 * ValScale) >>

\* _estimate_context_switches: clip(abs(cpu_trend) * load_avg * 0.1, 0, 1)
estimate_context_switches(cpu_trend, load_avg) ==
    LET estimated_switches ==
            IF cpu_trend = NaN \/ load_avg = NaN THEN NaN
            ELSE Quot(NAbs(cpu_trend) * load_avg, 10 * ValScale)
    IN Clip(estimated_switches, 0, ValScale)

(* --------------------------------------------- covariance conditioning *)
ClipMatrix(M, lo, hi) ==
    [r \in 1..Len(M) |-> [c \in 1..Len(M[r]) |-> Clip(M[r][c], lo, hi)]]

\* 0.5 * (M + M.T)
Symmetrize(M) ==
    [r \in 1..Len(M) |-> [c \in 1..Len(M) |->
        IF M[r][c] = NaN \/ M[c][r] = NaN THEN NaN
        ELSE Quot(M[r][c] + M[c][r], 2)]]

IsSymmetric(M) == \A r, c \in 1..Len(M) : M[r][c] = M[c][r]

\* np.linalg.eigh of a*I + e*(J - I): eigenvalue a + (n-1) e on the vector of
\* ones, eigenvalue a - e on its complement.  The spectrum, largest first.
EigUniform(M) == << M[1][1] + (Len(M) - 1) * M[1][2], M[1][1] - M[1][2] >>

\* eigvecs @ diag(clip(eigvals, lo, hi)) @ eigvecs.T for that matrix
EigClipUniform(M, lo, hi) ==
    LET n == Len(M)
        l1 == Clip(EigUniform(M)[1], lo, hi)
        l2 == Clip(EigUniform(M)[2], lo, hi)
    IN Uniform(n, Quot(l1 + (n - 1) * l2, n), Quot(l1 - l2, n))

\* What np.linalg.eigh does with a matrix that holds a NaN is left to the
\* LAPACK build: it raises LinAlgError or it returns NaN eigenpairs.
EighOutcomes(M) == IF HasNaN(M) THEN {"raise", "nan"} ELSE {"ok"}

(* ------------------------------------------------ _update_adaptive_noise *)
\* np.cov(innovations.T): unbiased sample covariance of the window's columns
innovation_cov(window) ==
    LET n == Len(window)
        Sx(a) == SumSeq([k \in 1..n |-> window[k][a]])
        Sxy(a, b) == SumSeq([k \in 1..n |-> window[k][a] * window[k][b]])
    IN IF \E k \in 1..n : HasNaNSeq(window[k]) THEN NaNMatrix(obs_dim)
       ELSE [a \in 1..obs_dim |-> [b \in 1..obs_dim |->
               Quot(n * Sxy(a, b) - Sx(a) * Sx(b), n * (n - 1))
                 * (VarScale \div (ValScale * ValScale))]]

\* R = (1 - alpha) * R + alpha * innovation_cov, alpha = 0.1
BlendR(Rm, cov) ==
    [a \in 1..obs_dim |-> [b \in 1..obs_dim |->
        IF Rm[a][b] = NaN \/ cov[a][b] = NaN THEN NaN
        ELSE Quot(9 * Rm[a][b] + cov[a][b], 10)]]

\* R = np.maximum(R, min_variance * np.eye(obs_dim))
FloorR(Rm) ==
    [a \in 1..obs_dim |-> [b \in 1..obs_dim |->
        NMax(Rm[a][b], EyeEntry(a, b, min_variance))]]

\* prediction_error = np.abs(filter.y).mean(), against 0.1 and 0.05
\* (the sum of the three moduli against 0.3 and 0.15)
AbsSum(yv) == IF HasNaNSeq(yv) THEN NaN ELSE SumSeq([a \in 1..Len(yv) |-> NAbs(yv[a])])
HighError(yv) == ~HasNaNSeq(yv) /\ 10 * AbsSum(yv) > 3 * ValScale
LowError(yv) == ~HasNaNSeq(yv) /\ 20 * AbsSum(yv) < 3 * ValScale

\* a variant of ScaleQ with the two factors exchanged, against which the
\* direction of the adjustment is tested
ScaleQExchanged(Qm, yv) ==
    [r \in 1..state_dim |-> [c \in 1..state_dim |->
        IF HighError(yv) THEN Qm[r][c] - Quot(Qm[r][c], 50)
        ELSE IF LowError(yv) THEN Qm[r][c] + Quot(Qm[r][c], 20)
        ELSE Qm[r][c]]]

\* Q *= 1.05, Q *= 0.98, or Q as it is
ScaleQ(Qm, yv) ==
    [r \in 1..state_dim |-> [c \in 1..state_dim |->
        IF HighError(yv) THEN Qm[r][c] + Quot(Qm[r][c], 20)
        ELSE IF LowError(yv) THEN Qm[r][c] - Quot(Qm[r][c], 50)
        ELSE Qm[r][c]]]

\* Q after the elementwise clip and the symmetrization
BoundedQ(Qm, yv) ==
    Symmetrize(ClipMatrix(ScaleQ(Qm, yv), min_process_noise, max_process_noise))

\* np.min(np.linalg.eigvalsh(M)) for M = diag(d) + e*(J - I), e >= 0.  With
\* a = d - e sorted, Cauchy interlacing gives a1 <= min eigenvalue <=
\* min(a2, min d); the value is exact when e = 0 or a1 = a2, and otherwise
\* ranges over the two ends of that bracket.
MinEigenvalues(M) ==
    LET n == Len(M)
        e == M[1][2]
        a == [r \in 1..n |-> M[r][r] - e]
        lowest == CHOOSE r \in 1..n : \A q \in 1..n : a[r] <= a[q]
        a1 == a[lowest]
        a2 == CHOOSE v \in {a[q] : q \in (1..n) \ {lowest}} :
                 \A q \in (1..n) \ {lowest} : v <= a[q]
    IN IF e = 0 \/ a1 = a2 THEN {a1}
       ELSE {a1, IF a2 < a1 + e THEN a2 ELSE a1 + e}

\* Q += (min_process_noise - np.min(eigvals)) * np.eye(state_dim), when the
\* smallest eigenvalue is under min_process_noise
RepairQ(Qm, mineig) ==
    IF mineig < min_process_noise
    THEN [r \in 1..state_dim |-> [c \in 1..state_dim |->
            Qm[r][c] + EyeEntry(r, c, min_process_noise - mineig)]]
    ELSE Qm

\* a variant of AdaptationRuns that needs only one interval of innovations,
\* against which the gating property is tested
AdaptationRunsEarly(window) == Len(window) >= adaptation_interval

\* the guard at the top of _update_adaptive_noise
AdaptationRuns(window) == Len(window) >= min_observations_for_adaptation

\* filter.R after _update_adaptive_noise
AdaptedR(window, Rm) ==
    IF AdaptationRuns(window) THEN FloorR(BlendR(Rm, innovation_cov(window))) ELSE Rm

\* the values filter.Q may have after _update_adaptive_noise
AdaptedQs(window, Qm, yv) ==
    IF AdaptationRuns(window)
    THEN {RepairQ(BoundedQ(Qm, yv), mineig) : mineig \in MinEigenvalues(BoundedQ(Qm, yv))}
    ELSE {Qm}

(* ------------------------------------------------------------ metadata *)
\* metadata(): the input and output tensor names, in order
metadata_inputs == <<"cpu_utilization", "memory_utilization", "load_average_1m">>
metadata_outputs ==
    <<"cpu_prediction", "prediction_variance", "innovation", "cpu_trend",
      "model_confidence">>

\* metadata(): the same descriptors whatever the estimator holds
metadata(init, count) == [inputs |-> metadata_inputs, outputs |-> metadata_outputs]

(* ------------------------------------------------- one loop iteration *)
\* np.linalg.norm(filter.y)
Norm(yv) ==
    IF HasNaNSeq(yv) THEN NaN ELSE ISqrt(SumSeq([a \in 1..Len(yv) |-> yv[a] * yv[a]]))

\* a variant of Exploded that never fires, against which the reset property
\* is tested
NeverExploded(prediction_variance) == FALSE

\* the variance-explosion test
Exploded(prediction_variance) == NGt(prediction_variance, variance_reset_threshold)

\* filter.P after the reset, the elementwise clip and the symmetrization
ClippedP(Pm) ==
    Symmetrize(ClipMatrix(IF Exploded(Pm[1][1]) THEN P_seed ELSE Pm,
                          min_variance, max_variance))

\* prediction_variance as reported: reset value, then clipped
ReportedVariance(Pm) ==
    Clip(IF Exploded(Pm[1][1]) THEN VarScale ELSE Pm[1][1], min_variance, max_variance)

\* filter.P after eigenvalue clipping, for each way eigh may end
ConditionedP(Pm, eig) ==
    IF eig = "ok" THEN EigClipUniform(Pm, min_variance, max_variance)
    ELSE NaNMatrix(state_dim)

\* confidence = clip(1 / (1 + trace_P * 0.1 + innovation * 0.1), 0, 1) with
\* trace_P = trace(P) / state_dim; the denominator is held in thousandths
Confidence(Pm, innovation) ==
    IF HasNaN(Pm) \/ innovation = NaN THEN NaN
    ELSE LET trace_P == Quot(Trace(Pm), state_dim)
             denominator == 1000 + Quot(Quot(trace_P, VarScale \div 1000), 10)
                                 + Quot(innovation * (1000 \div ValScale), 10)
         IN Clip(Quot(ConfScale * 1000, denominator), 0, ConfScale)

\* a variant of WindowAppend that drops an innovation holding a NaN, against
\* which the pairing of the window with the counter is tested
WindowAppendFinite(window, yv) ==
    IF HasNaNSeq(yv) THEN window
    ELSE IF Len(window) < window_maxlen THEN Append(window, yv)
    ELSE Append(Tail(window), yv)

\* a variant of WindowAppend that never evicts, against which the window
\* property is tested
WindowAppendUnbounded(window, yv) == Append(window, yv)

\* deque(maxlen=50).append
WindowAppend(window, yv) ==
    IF Len(window) < window_maxlen THEN Append(window, yv)
    ELSE Append(Tail(window), yv)

\* a variant of OutputData with two series exchanged, against which the
\* response-order property is tested
OutputDataSwapped(c) ==
    <<c.variances, c.predictions, c.innovations, c.trends, c.confidences>>

\* output_data = [predictions, variances, innovations, trends, confidences]
OutputData(c) ==
    <<c.predictions, c.variances, c.innovations, c.trends, c.confidences>>

\* a variant of SuspensionPoints with a suspension inside the loop, against
\* which the no-interleaving property is tested
SuspensionPointsInLoop == {"await_metadata", "loop"}

\* the coroutine positions at which predict() hands control back to the
\* event loop: the await of metadata()
SuspensionPoints == {"await_metadata"}

\* the adaptation cadence: observation_count % 10 == 0
AdaptationDue(count) == count % adaptation_interval = 0

(* ------------------------------------------------------------ requests *)
\* InferenceRequest payloads of Spec: lists of input series
CalmTick == << <<30>>, <<50>>, <<100>> >>
WildBatch == << <<90, 120>>, <<90, -10>>, <<500, 20000>> >>
NaNTick == << <<NaN>>, <<50>>, <<100>> >>
ShortMemory == << <<30, 30>>, <<50>>, <<100, 100>> >>
EmptyBatch == << <<>>, <<>>, <<>> >>
OneInput == << <<50>> >>
FourInputs == << <<30>>, <<50>>, <<100>>, <<100>> >>
Payloads == {CalmTick, WildBatch, NaNTick, ShortMemory, EmptyBatch, OneInput, FourInputs}

\* ten-tick batches of SpecRun and SpecDrift: the constant observation
\* (0.5, 0.5, 2.0), and the same with the first CPU sample missing
Repeat(v, n) == [k \in 1..n |-> v]
SteadyBatch == << Repeat(50, BatchLen), Repeat(50, BatchLen), Repeat(200, BatchLen) >>
NaNLedBatch ==
    << [k \in 1..BatchLen |-> IF k = 1 THEN NaN ELSE 50],
       Repeat(50, BatchLen), Repeat(200, BatchLen) >>
ConcPayloads == {CalmTick, WildBatch}
RunPayloads == {SteadyBatch, NaNLedBatch}
DriftPayloads == {SteadyBatch}

(* ---------------------------------------------------------------- state *)
VARIABLES
    initialized,        \* self.initialized
    observation_count,  \* self.observation_count
    innovation_window,  \* self.innovation_window
    F, H, Q, R, P, x, y,    \* self.filter's matrices; <<>> while filter is None
    running,            \* the predict() coroutine the event loop is running, 0 if none
    call,               \* per coroutine slot: position, locals and outcome
    submitted,          \* predict() requests made so far
    loads,              \* load() calls made so far
    arrIn, arrOut       \* argument and result of a preprocessing function

vars == <<initialized, observation_count, innovation_window, F, H, Q, R, P, x, y,
          running, call, submitted, loads, arrIn, arrOut>>
estimator == <<observation_count, innovation_window, F, H, Q, R, P, x, y>>

IdleCall ==
    [pc |-> "idle", inputs |-> <<>>, cpu |-> <<>>, memory |-> <<>>, load |-> <<>>,
     i |-> 0, measurement |-> <<>>,
     predictions |-> <<>>, variances |-> <<>>, innovations |-> <<>>,
     trends |-> <<>>, confidences |-> <<>>,
     emitted |-> <<>>, error |-> "", response |-> <<>>]

\* __init__
Init ==
    /\ initialized = FALSE
    /\ observation_count = 0
    /\ innovation_window = <<>>
    /\ F = <<>> /\ H = <<>> /\ Q = <<>> /\ R = <<>> /\ P = <<>> /\ x = <<>> /\ y = <<>>
    /\ running = 0
    /\ call = [c \in 1..Slots |-> IdleCall]
    /\ submitted = 0
    /\ loads = 0
    /\ arrIn = <<>> /\ arrOut = <<>>

\* a variant of Load that also restarts the observation count, against which
\* the lifetime of the count is tested
LoadResettingCount ==
    /\ running = 0
    /\ loads < MaxLoads
    /\ loads' = loads + 1
    /\ F' = F_seed /\ H' = H_seed /\ Q' = Q_seed /\ R' = R_seed
    /\ P' = P_seed /\ x' = x_seed /\ y' = y_seed
    /\ initialized' = TRUE
    /\ observation_count' = 0
    /\ UNCHANGED <<innovation_window, running, call, submitted, arrIn, arrOut>>

\* a variant of Load that also empties the innovation window, against which
\* the survival of the window over a reload is tested
LoadClearingWindow ==
    /\ running = 0
    /\ loads < MaxLoads
    /\ loads' = loads + 1
    /\ F' = F_seed /\ H' = H_seed /\ Q' = Q_seed /\ R' = R_seed
    /\ P' = P_seed /\ x' = x_seed /\ y' = y_seed
    /\ initialized' = TRUE
    /\ innovation_window' = <<>>
    /\ UNCHANGED <<observation_count, running, call, submitted, arrIn, arrOut>>

\* a variant of Load that flips the flag instead of setting it, against which
\* the one-way transition is tested
LoadTogglingFlag ==
    /\ running = 0
    /\ loads < MaxLoads
    /\ loads' = loads + 1
    /\ F' = F_seed /\ H' = H_seed /\ Q' = Q_seed /\ R' = R_seed
    /\ P' = P_seed /\ x' = x_seed /\ y' = y_seed
    /\ initialized' = ~initialized
    /\ UNCHANGED <<observation_count, innovation_window, running, call, submitted,
                   arrIn, arrOut>>

\* load() -> _setup_kalman_filter()
Load ==
    /\ running = 0
    /\ loads < MaxLoads
    /\ loads' = loads + 1
    /\ F' = F_seed /\ H' = H_seed /\ Q' = Q_seed /\ R' = R_seed
    /\ P' = P_seed /\ x' = x_seed /\ y' = y_seed
    /\ initialized' = TRUE
    /\ UNCHANGED <<observation_count, innovation_window, running, call, submitted,
                   arrIn, arrOut>>

\* a request arrives: a predict(payload) coroutine is created
Begin(c, payloads, limit) ==
    /\ call[c].pc = "idle"
    /\ submitted < limit
    /\ \E payload \in payloads :
          call' = [call EXCEPT ![c] = [IdleCall EXCEPT !.pc = "ready", !.inputs = payload]]
    /\ submitted' = submitted + 1
    /\ UNCHANGED <<initialized, estimator, running, loads, arrIn, arrOut>>

\* the check predict() makes before it awaits anything
\* a variant of EntryError that looks at the arity first, against which the
\* order of the two checks is tested
EntryErrorArityFirst(init, inputs) ==
    IF Len(inputs) # expected_arity THEN "ValueError"
    ELSE IF ~init THEN "RuntimeError" ELSE ""

EntryError(init, inputs) == IF ~init THEN "RuntimeError" ELSE ""

\* predict() up to "await self.metadata()"
Enter(c) ==
    /\ running = 0
    /\ call[c].pc = "ready"
    /\ IF EntryError(initialized, call[c].inputs) # ""
       THEN /\ call' = [call EXCEPT ![c].pc = "raised",
                                    ![c].error = EntryError(initialized, call[c].inputs)]
            /\ UNCHANGED running
       ELSE /\ call' = [call EXCEPT ![c].pc = "await_metadata"]
            /\ running' = c
    /\ UNCHANGED <<initialized, estimator, submitted, loads, arrIn, arrOut>>

\* the event loop takes control at a suspension point ...
Suspend(c) ==
    /\ running = c
    /\ call[c].pc \in SuspensionPoints
    /\ running' = 0
    /\ UNCHANGED <<initialized, estimator, call, submitted, loads, arrIn, arrOut>>

\* ... and gives it back
Resume(c) ==
    /\ running = 0
    /\ call[c].pc \in {"await_metadata", "loop"}
    /\ running' = c
    /\ UNCHANGED <<initialized, estimator, call, submitted, loads, arrIn, arrOut>>

\* len(payload.inputs) == 3
\* a variant of ArityOK that accepts extra inputs, against which the arity
\* property is tested
ArityAtLeast(inputs) == Len(inputs) >= expected_arity

ArityOK(inputs) == Len(inputs) = expected_arity

\* predict() from the return of metadata() to the loop: the arity check,
\* decoding and _preprocess_inputs
Validate(c) ==
    /\ running = c
    /\ call[c].pc = "await_metadata"
    /\ IF ArityOK(call[c].inputs)
       THEN LET pre == preprocess_inputs(call[c].inputs[1], call[c].inputs[2],
                                         call[c].inputs[3])
            IN /\ call' = [call EXCEPT ![c].pc = "loop", ![c].cpu = pre[1],
                                       ![c].memory = pre[2], ![c].load = pre[3]]
               /\ UNCHANGED running
       ELSE /\ call' = [call EXCEPT ![c].pc = "raised", ![c].error = "ValueError"]
            /\ running' = 0
    /\ UNCHANGED <<initialized, estimator, submitted, loads, arrIn, arrOut>>

\* a variant of NoiseAtUpdate in which the adaptation check comes before the
\* update of its own tick, against which the place of the check is tested
NoiseAdaptedFirst(Rm, window, count) ==
    IF AdaptationDue(count) THEN AdaptedR(window, Rm) ELSE Rm

\* the R that filter.update() of a tick reads: the one the previous tick
\* left, the adaptation check of this tick coming after its outputs
NoiseAtUpdate(Rm, window, count) == Rm

\* a variant of StateAfterTick that also clamps the stored CPU estimate as
\* the emitted one is clamped, against which the writers of x are tested
StateAfterTickClamped(x_post, switches) ==
    [x_post EXCEPT ![1] = Clip(@, 0, ValScale), ![5] = switches]

\* self.filter.x[4] = self._estimate_context_switches(...): the one write to
\* x outside filter.predict() and filter.update()
StateAfterTick(x_post, switches) == [x_post EXCEPT ![5] = switches]

\* a variant of FilterModelKept in which a tick rewrites the transition
\* matrix, against which the constancy of F and H is tested
FilterModelRewritten == F' = [F EXCEPT ![1][2] = 0] /\ H' = H

\* filter.predict(), filter.update(), the hardening and the adaptation
\* assign neither filter.F nor filter.H
FilterModelKept == UNCHANGED <<F, H>>

\* One iteration of the loop of predict(): the measurement vector,
\* filter.predict(), filter.update(), the bookkeeping, the conditioning of P,
\* the outputs and the adaptation check.
Tick(c, outcomes) ==
    /\ running = c
    /\ call[c].pc = "loop"
    /\ call[c].i < Len(call[c].cpu)
    /\ LET k == call[c].i + 1
       IN IF k > Len(call[c].memory) \/ k > Len(call[c].load)
          THEN \* memory_utilization[i] or load_average[i]: IndexError
               /\ call' = [call EXCEPT ![c].pc = "raised", ![c].error = "IndexError"]
               /\ running' = 0
               /\ UNCHANGED estimator
          ELSE \E o \in outcomes :
               \E measurement \in {<<call[c].cpu[k], call[c].memory[k], call[c].load[k]>>} :
               \E x_prior \in {PredictState(F, x)} :
               \E yv \in {Innovation(H, x_prior, measurement)} :
               \E window \in {WindowAppend(innovation_window, yv)} :
               \E R_update \in {NoiseAtUpdate(R, window, observation_count + 1)} :
               \E x_post \in {UpdateState(x_prior, yv, o.K, P, Q, R_update)} :
               \E P_post \in {UpdateCovariance(P, Q, R_update, o.P)} :
               \E P_clipped \in {ClippedP(P_post)} :
               \E eig \in EighOutcomes(P_clipped) :
               LET count == observation_count + 1
                   predicted_cpu == x_post[1]
                   cpu_trend == x_post[2]
                   prediction_variance == ReportedVariance(P_post)
                   innovation == Norm(yv)
               IN IF eig = "raise"
                  THEN \* np.linalg.eigh raises LinAlgError
                       /\ call' = [call EXCEPT ![c].pc = "raised",
                                               ![c].error = "LinAlgError",
                                               ![c].measurement = measurement]
                       /\ running' = 0
                       /\ x' = x_post /\ P' = P_clipped /\ y' = yv
                       /\ observation_count' = count
                       /\ innovation_window' = window
                       /\ UNCHANGED <<F, H, Q, R>>
                  ELSE \E P_final \in {ConditionedP(P_clipped, eig)} :
                       \E confidence \in {Confidence(P_final, innovation)} :
                       \E emitted_cpu \in {Clip(predicted_cpu, 0, ValScale)} :
                       LET switches == estimate_context_switches(cpu_trend, call[c].load[k])
                       IN /\ call' = [call EXCEPT
                                 ![c].i = k,
                                 ![c].measurement = measurement,
                                 ![c].predictions = Append(@, emitted_cpu),
                                 ![c].variances = Append(@, prediction_variance),
                                 ![c].innovations = Append(@, innovation),
                                 ![c].trends = Append(@, cpu_trend),
                                 ![c].confidences = Append(@, confidence),
                                 ![c].emitted = Append(@,
                                     <<emitted_cpu, prediction_variance, innovation,
                                       cpu_trend, confidence>>)]
                          /\ UNCHANGED running
                          /\ x' = StateAfterTick(x_post, switches)
                          /\ P' = P_final
                          /\ y' = yv
                          /\ observation_count' = count
                          /\ innovation_window' = window
                          /\ Q' \in (IF AdaptationDue(count)
                                     THEN AdaptedQs(window, Q, yv) ELSE {Q})
                          /\ R' = (IF AdaptationDue(count) THEN AdaptedR(window, R) ELSE R)
                          /\ FilterModelKept
    /\ UNCHANGED <<initialized, submitted, loads, arrIn, arrOut>>

\* the end of predict(): one output per tensor of metadata().outputs
Return(c) ==
    /\ running = c
    /\ call[c].pc = "loop"
    /\ call[c].i = Len(call[c].cpu)
    /\ call' = [call EXCEPT
          ![c].pc = "returned",
          ![c].response = [j \in 1..Len(metadata_outputs) |->
                             [name |-> metadata_outputs[j],
                              data |-> OutputData(call[c])[j]]]]
    /\ running' = 0
    /\ UNCHANGED <<initialized, estimator, submitted, loads, arrIn, arrOut>>

\* the caller takes the response or the exception
Collect(c) ==
    /\ call[c].pc \in {"returned", "raised"}
    /\ call' = [call EXCEPT ![c] = IdleCall]
    /\ UNCHANGED <<initialized, estimator, running, submitted, loads, arrIn, arrOut>>

(* ------------------------------------------------------- specifications *)
\* One caller, any payload, every outcome of the filter update, load() at
\* any time.
Next ==
    \/ Load
    \/ Begin(1, Payloads, MaxCalls)
    \/ Enter(1)
    \/ Suspend(1)
    \/ Resume(1)
    \/ Validate(1)
    \/ Tick(1, UpdateOutcomes)
    \/ Return(1)
    \/ Collect(1)

Spec == Init /\ [][Next]_vars

FirstLoad == ~initialized /\ Load

\* Concurrent callers on one loaded instance.
ConcBegin(c) == initialized /\ Begin(c, ConcPayloads, MaxCalls)

NextConc ==
    \/ FirstLoad
    \/ \E c \in 1..Slots :
          \/ ConcBegin(c)
          \/ Enter(c)
          \/ Suspend(c)
          \/ Resume(c)
          \/ Validate(c)
          \/ Tick(c, SteadyOutcomes)
          \/ Return(c)
          \/ Collect(c)

SpecConc == Init /\ [][NextConc]_vars

\* Long runs: load() once, then ten-tick batches, one request at a time.
RunBegin == initialized /\ Begin(1, RunPayloads, MaxBatches)

NextRun ==
    \/ FirstLoad
    \/ RunBegin
    \/ Enter(1)
    \/ Validate(1)
    \/ Tick(1, SteadyOutcomes)
    \/ Return(1)
    \/ Collect(1)

SpecRun == Init /\ [][NextRun]_vars

\* The constant observation for thousands of ticks after a single load().
DriftBegin == initialized /\ Begin(1, DriftPayloads, DriftBatches)

NextDrift ==
    \/ FirstLoad
    \/ DriftBegin
    \/ Enter(1)
    \/ Validate(1)
    \/ Tick(1, SteadyOutcomes)
    \/ Return(1)
    \/ Collect(1)

SpecDrift == Init /\ [][NextDrift]_vars

\* Ten-tick batches of the constant observation with load() called again
\* between requests.
ReloadBegin == initialized /\ Begin(1, DriftPayloads, MaxCalls)

NextReload ==
    \/ Load
    \/ ReloadBegin
    \/ Enter(1)
    \/ Validate(1)
    \/ Tick(1, SteadyOutcomes)
    \/ Return(1)
    \/ Collect(1)

SpecReload == Init /\ [][NextReload]_vars

\* The constant observation (0.5, 0.5, 2.0) in one request of StableTicks
\* ticks or more on a freshly loaded estimator.
StableBatch(n) == << Repeat(50, n), Repeat(50, n), Repeat(200, n) >>
StablePayloads == {StableBatch(StableTicks), StableBatch(StableTicks + BatchLen)}
StableBegin == initialized /\ Begin(1, StablePayloads, 1)

NextStable ==
    \/ FirstLoad
    \/ StableBegin
    \/ Enter(1)
    \/ Validate(1)
    \/ Tick(1, SteadyOutcomes)
    \/ Return(1)
    \/ Collect(1)

SpecStable == Init /\ [][NextStable]_vars

\* The preprocessing functions on every series of up to MaxLen samples.
Samples == {NaN, 50, 90}
Series == UNION {[1..n -> Samples] : n \in 0..MaxLen}

InitFill ==
    /\ Init!1 /\ Init!2 /\ Init!3 /\ Init!4 /\ Init!5 /\ Init!6 /\ Init!7 /\ Init!8
    /\ arrIn \in Series
    /\ arrOut = <<>>

ApplyFill ==
    /\ arrOut = <<>>
    /\ arrOut' = <<fill_missing(arrIn)>>
    /\ UNCHANGED <<initialized, estimator, running, call, submitted, loads, arrIn>>

SpecFill == InitFill /\ [][ApplyFill]_vars

\* The hardening steps of one tick (reset, clip, symmetrization, eigenvalue
\* clipping; model.py:336-356) on posterior covariances a*I + e*(J - I)
\* around the bounds and the reset threshold, and on a posterior of NaN.
PosteriorDiagonals ==
    {-1, 4, min_variance, VarScale \div 2, VarScale, max_variance,
     20 * VarScale, variance_reset_threshold, 150 * VarScale}
PosteriorOffDiagonals ==
    {-VarScale, -1, 0, 4, VarScale \div 10, VarScale \div 2, 12 * VarScale}
Posteriors ==
    {Uniform(state_dim, a, e) : a \in PosteriorDiagonals, e \in PosteriorOffDiagonals}
        \cup {NaNMatrix(state_dim)}

InitHarden ==
    /\ Init!1 /\ Init!2 /\ Init!3 /\ Init!4 /\ Init!5 /\ Init!6 /\ Init!7 /\ Init!8
    /\ arrIn \in Posteriors
    /\ arrOut = <<>>

ApplyHarden ==
    /\ arrOut = <<>>
    /\ \E P_clipped \in {ClippedP(arrIn)} :
       \E eig \in EighOutcomes(P_clipped) :
          arrOut' = << [variance |-> ReportedVariance(arrIn),
                        P |-> IF eig = "raise" THEN P_clipped
                              ELSE ConditionedP(P_clipped, eig),
                        raised |-> (eig = "raise")] >>
    /\ UNCHANGED <<initialized, estimator, running, call, submitted, loads, arrIn>>

SpecHarden == InitHarden /\ [][ApplyHarden]_vars

\* _update_adaptive_noise as a function of Q, the latest innovation y and
\* the window: Q at its seed, after a first adaptation, near and at the
\* bounds; innovations whose mean modulus lies under, at, between and over
\* the thresholds 0.05 and 0.1, and one holding a NaN; a window one short of
\* min_observations_for_adaptation and one that reaches it.
AdaptQs ==
    {Q_seed,
     BoundedQ(Q_seed, y_seed),
     Uniform(state_dim, max_process_noise, min_process_noise),
     Uniform(state_dim, max_process_noise - max_process_noise \div 100, 0),
     Uniform(state_dim, min_process_noise, min_process_noise),
     Uniform(state_dim, 5 * min_process_noise, 2 * min_process_noise)}
AdaptInnovations ==
    {<<0, 0, 0>>, <<4, -4, 4>>, <<5, 5, 4>>, <<5, -5, 5>>, <<8, 0, -9>>,
     <<10, 10, -10>>, <<10, 10, 11>>, <<-40, 0, 90>>, <<NaN, 0, 0>>}
AdaptWindows ==
    {Repeat(y_seed, min_observations_for_adaptation - 1),
     Repeat(y_seed, min_observations_for_adaptation)}

InitAdapt ==
    /\ Init!1 /\ Init!2 /\ Init!3 /\ Init!4 /\ Init!5 /\ Init!6 /\ Init!7 /\ Init!8
    /\ arrIn \in {[Q |-> Qm, y |-> yv, window |-> w] :
                     Qm \in AdaptQs, yv \in AdaptInnovations, w \in AdaptWindows}
    /\ arrOut = <<>>

ApplyAdapt ==
    /\ arrOut = <<>>
    /\ \E Qm \in AdaptedQs(arrIn.window, arrIn.Q, arrIn.y) : arrOut' = <<Qm>>
    /\ UNCHANGED <<initialized, estimator, running, call, submitted, loads, arrIn>>

SpecAdapt == InitAdapt /\ [][ApplyAdapt]_vars

\* The measurement vectors predict() builds from three series: sample k of
\* each series after _preprocess_inputs.
Measurements(cpu, memory, load_avg) ==
    LET pre == preprocess_inputs(cpu, memory, load_avg)
    IN [k \in 1..Len(pre[1]) |-> <<pre[1][k], pre[2][k], pre[3][k]>>]

\* The same series handed to predict() in one call and in two consecutive
\* calls: NaN-free series within [0, 1], all samples equal but at most one,
\* cut after any sample but the last.
SplitSeries ==
    {[k \in 1..n |-> IF k = j THEN ValScale - v ELSE v] :
        n \in 2..SplitLen, j \in 0..SplitLen, v \in {0, ValScale}}
SplitInputs ==
    {r \in [series : SplitSeries, cut : 1..(SplitLen - 1)] : r.cut < Len(r.series)}

InitSplit ==
    /\ Init!1 /\ Init!2 /\ Init!3 /\ Init!4 /\ Init!5 /\ Init!6 /\ Init!7 /\ Init!8
    /\ arrIn \in SplitInputs
    /\ arrOut = <<>>

ApplySplit ==
    /\ arrOut = <<>>
    /\ \E first \in {SubSeq(arrIn.series, 1, arrIn.cut)} :
       \E second \in {SubSeq(arrIn.series, arrIn.cut + 1, Len(arrIn.series))} :
          arrOut' = << [one_call |-> Measurements(arrIn.series, arrIn.series, arrIn.series),
                        two_calls |-> Measurements(first, first, first)
                                        \o Measurements(second, second, second)] >>
    /\ UNCHANGED <<initialized, estimator, running, call, submitted, loads, arrIn>>

SpecSplit == InitSplit /\ [][ApplySplit]_vars

(* =============================================================== claims *)
Callers == 1..Slots

\* C1: predict() on a model on which load() has never run raises
\* RuntimeError for every payload, whatever its number of inputs, before
\* the arity is looked at and without touching the estimator.
C1_UninitializedRaisesRuntimeError ==
    loads = 0 =>
        /\ observation_count = 0
        /\ \A c \in Callers :
              \/ call[c].pc \in {"idle", "ready"}
              \/ call[c].pc = "raised" /\ call[c].error = "RuntimeError"

\* C1 witness: a one-input payload was refused with RuntimeError before load()
C1_Witness ==
    /\ loads = 0
    /\ call[1].pc = "raised"
    /\ call[1].error = "RuntimeError"
    /\ Len(call[1].inputs) # expected_arity

\* C2: on an initialized model a payload whose number of inputs is not 3
\* ends in ValueError and runs no filter tick.
C2_WrongArityRaisesValueError ==
    \A c \in Callers :
        (/\ Len(call[c].inputs) # expected_arity
         /\ call[c].pc \notin {"idle", "ready", "await_metadata"}
         /\ call[c].error # "RuntimeError")
        => /\ call[c].pc = "raised"
           /\ call[c].error = "ValueError"
           /\ call[c].i = 0
           /\ call[c].emitted = <<>>

\* C2 witness: a four-input payload was refused with ValueError after load()
C2_Witness ==
    /\ initialized
    /\ call[1].pc = "raised"
    /\ call[1].error = "ValueError"
    /\ Len(call[1].inputs) = 4

\* C3: for three input series of common length n, the response holds the
\* five series cpu_prediction, prediction_variance, innovation, cpu_trend,
\* model_confidence in this order, each of length n, the k-th element of
\* each being the value emitted at tick k.
C3_FiveSeriesInOrder ==
    \A c \in Callers :
        (/\ call[c].pc = "returned"
         /\ Len(call[c].inputs) = 3
         /\ \A j \in 1..3 : Len(call[c].inputs[j]) = Len(call[c].inputs[1]))
        => LET n == Len(call[c].inputs[1])
               names == <<"cpu_prediction", "prediction_variance", "innovation",
                          "cpu_trend", "model_confidence">>
               out == call[c].response
           IN /\ Len(out) = 5
              /\ Len(call[c].emitted) = n
              /\ \A j \in 1..5 :
                    /\ out[j].name = names[j]
                    /\ Len(out[j].data) = n
                    /\ \A k \in 1..n : out[j].data[k] = call[c].emitted[k][j]

\* C3 witness: a response for two ticks
C3_Witness ==
    /\ call[1].pc = "returned"
    /\ Len(call[1].inputs) = 3
    /\ Len(call[1].inputs[1]) = 2
    /\ Len(call[1].response) = 5

\* C4: a tick modifies Q or R only when the observation count after it is
\* a multiple of 10 and the window holds at least 20 innovations; before
\* tick 20 every tick, tick 10 included, leaves Q and R as load() set them
\* and raises nothing.
C4_AdaptationGating ==
    [][(initialized /\ observation_count' = observation_count + 1) =>
          /\ (~(observation_count' % 10 = 0 /\ Len(innovation_window') >= 20))
                => (Q' = Q /\ R' = R)
          /\ observation_count' < 20
                => (/\ Q' = Q_seed /\ R' = R_seed
                    /\ \A c \in Callers : call'[c].pc # "raised")]_vars

\* C4 witness: the tick that brings the count to 20 has changed R
C4_Witness ==
    /\ observation_count = 20
    /\ Len(innovation_window) = 20
    /\ R # R_seed

\* C5: at every tick of every predict() call on an initialized model, for
\* all inputs, the emitted cpu_prediction and the emitted model_confidence
\* lie in [0, 1].
C5_PredictionAndConfidenceInUnitRange ==
    \A c \in Callers : \A k \in 1..Len(call[c].emitted) :
        /\ call[c].emitted[k][1] \in 0..ValScale
        /\ call[c].emitted[k][5] \in 0..ConfScale

C7_FiniteTickLeavesStateFinite ==
    \A c \in Callers :
        (/\ call[c].pc = "loop"
         /\ running = c
         /\ call[c].i > 0
         /\ ~HasNaNSeq(call[c].measurement))
        => (~HasNaNSeq(x) /\ ~HasNaN(P))

\* C8: for a series whose NaN fraction is below 0.15, fill_missing returns
\* a series without NaN in which every position that was not NaN keeps its
\* value, a gap at the first element included.
C8_ForwardFillLeavesNoNaN ==
    (/\ arrOut # <<>>
     /\ Len(arrIn) > 0
     /\ NaNCount(arrIn) * 100 < 15 * Len(arrIn))
    => /\ Len(arrOut[1]) = Len(arrIn)
       /\ ~HasNaNSeq(arrOut[1])
       /\ \A k \in 1..Len(arrIn) : arrIn[k] # NaN => arrOut[1][k] = arrIn[k]

\* C9: two predict() calls on one instance never interleave their ticks: a
\* call inside the loop holds the event loop until it has returned or
\* raised, no other call is inside the loop, and a call waiting at the
\* await of metadata() has run no tick.
C9_TicksNeverInterleave ==
    \A c \in Callers :
        /\ call[c].pc = "loop" =>
              /\ running = c
              /\ \A d \in Callers \ {c} : call[d].pc # "loop"
        /\ call[c].pc = "await_metadata" => (call[c].i = 0 /\ call[c].emitted = <<>>)

\* C9 witness: one call has run a tick and is still in its loop while
\* another call waits at the await of metadata()
C9_Witness ==
    \E c, d \in Callers :
        /\ c # d
        /\ call[c].pc = "loop"
        /\ call[c].i >= 1
        /\ call[c].i < Len(call[c].cpu)
        /\ call[d].pc = "await_metadata"

\* C10: in every reachable state every diagonal entry of Q lies in
\* [min_process_noise, max_process_noise], the state right after the
\* eigenvalue repair of an adaptation included.
C10_QDiagonalWithinBounds ==
    initialized =>
        \A r \in 1..state_dim : Q[r][r] \in min_process_noise..max_process_noise

\* C11: in every state of an initialized estimator, from the value load()
\* sets onward and after every adaptation, every entry of R, diagonal and
\* off-diagonal, is at least min_variance.
C11_REntriesAtLeastMinVariance ==
    initialized =>
        \A a, b \in 1..obs_dim : R[a][b] # NaN /\ R[a][b] >= min_variance

\* a * b / c for fixed-point numbers, through the ratio a / c in thousandths
MulDiv(a, b, c) == Quot(b * Quot(a * 1000, c), 1000)

\* np.all(np.linalg.eigvals(M) > 0) for a symmetric 3 x 3 matrix without NaN:
\* the three pivots of its LDL' factorization are positive
PositiveDefinite3(M) ==
    IF M[1][1] <= 0 THEN FALSE
    ELSE LET p2 == M[2][2] - MulDiv(M[1][2], M[1][2], M[1][1])
             m23 == M[2][3] - MulDiv(M[1][2], M[1][3], M[1][1])
         IN IF p2 <= 0 THEN FALSE
            ELSE M[3][3] - MulDiv(M[1][3], M[1][3], M[1][1]) - MulDiv(m23, m23, p2) > 0

\* the state a tick leaves when its adaptation check ran _update_adaptive_noise
\* to the end
AfterAdaptation ==
    /\ initialized
    /\ AdaptationDue(observation_count)
    /\ AdaptationRuns(innovation_window)
    /\ \E c \in Callers : running = c /\ call[c].pc = "loop" /\ call[c].i > 0

\* C12: after every triggered adaptation Q and R are each symmetric with all
\* eigenvalues strictly positive.
C12_NoiseCovariancesPositiveDefinite ==
    AfterAdaptation =>
        /\ ~HasNaN(Q) /\ IsSymmetric(Q)
        /\ \A mineig \in MinEigenvalues(Q) : mineig > 0
        /\ ~HasNaN(R) /\ IsSymmetric(R)
        /\ PositiveDefinite3(R)

\* the state a completed loop iteration of call c leaves
TickEnded(c) == running = c /\ call[c].pc = "loop" /\ call[c].i > 0

C14_PEntriesWithinBounds ==
    \A c \in Callers :
        TickEnded(c) =>
            \A r, q \in 1..state_dim :
                P[r][q] # NaN /\ P[r][q] >= min_variance /\ P[r][q] <= max_variance

\* C15: the innovation window never holds more than 50 entries; every
\* processed tick appends exactly one 3-dimensional innovation, the oldest
\* entry leaving when the window is full, and nothing else changes the
\* window, so it holds the innovations of the most recent min(n, 50) ticks
\* in arrival order.
C15_WindowKeepsLast50 ==
    /\ [](/\ Len(innovation_window) <= 50
          /\ (observation_count <= 50 => Len(innovation_window) = observation_count)
          /\ (observation_count > 50 => Len(innovation_window) = 50))
    /\ [][IF observation_count' = observation_count + 1
          THEN LET old == innovation_window
                   new == innovation_window'
                   shift == IF Len(old) = 50 THEN 1 ELSE 0
               IN /\ Len(new) = Len(old) + 1 - shift
                  /\ Len(new[Len(new)]) = 3
                  /\ new[Len(new)] = y'
                  /\ \A k \in 1..(Len(new) - 1) : new[k] = old[k + shift]
          ELSE innovation_window' = innovation_window]_vars

\* C15 witness: the window is full and older innovations have been evicted
C15_Witness ==
    /\ Len(innovation_window) = 50
    /\ observation_count = 52
    /\ innovation_window[50] = y

\* C16: observation_count grows by exactly 1 at every processed tick and no
\* operation, load() and the end of a predict() call included, lowers or
\* resets it.
C16_ObservationCountMonotonic ==
    [][/\ observation_count' >= observation_count
       /\ \A c \in Callers :
             call'[c].i = call[c].i + 1 => observation_count' = observation_count + 1
       /\ observation_count' # observation_count =>
             /\ observation_count' = observation_count + 1
             /\ \E c \in Callers : running = c /\ call[c].pc = "loop"]_vars

\* C16 witness: after a second load() a later call ticks on a count that
\* earlier calls built up
C16_Witness ==
    /\ loads = 2
    /\ call[1].pc = "loop"
    /\ call[1].i = 1
    /\ observation_count >= 3

\* C17: when the posterior P[0,0] exceeds variance_reset_threshold, P is
\* reset to the identity before the remaining hardening steps (which leave
\* the identity with its zeros raised to min_variance) and the
\* prediction_variance reported for the tick is 1.0.
C17_ExplosionResetsP ==
    (/\ arrOut # <<>>
     /\ arrIn[1][1] # NaN
     /\ arrIn[1][1] > 100 * VarScale)
    => /\ ~arrOut[1].raised
       /\ arrOut[1].variance = VarScale
       /\ arrOut[1].P = Uniform(state_dim, VarScale, min_variance)

\* C17 witness: a posterior with P[0,0] = 150 has gone through the steps
C17_Witness ==
    /\ arrOut # <<>>
    /\ arrIn[1][1] = 150 * VarScale
    /\ arrOut[1].variance = VarScale

\* C18: at the end of every tick x[4] is clip(|x[1]| * z[2] * 0.1, 0, 1),
\* from the posterior trend x[1] and the tick's preprocessed load
\* observation z[2], and so lies in [0, 1].
C18_ContextSwitchesOverwritten ==
    \A c \in Callers :
        TickEnded(c) =>
            /\ x[5] # NaN
            /\ x[5] \in 0..ValScale
            /\ x[2] # NaN
            /\ x[5] = Clip(Quot(NAbs(x[2]) * call[c].measurement[3], 10 * ValScale),
                           0, ValScale)

\* C19: after _preprocess_inputs, for any input series, every CPU value and
\* every memory value lies in [0, 1] and every load-average value in
\* [0, 100].
C19_PreprocessedWithinDomain ==
    \A c \in Callers :
        call[c].pc = "loop" =>
            /\ \A k \in 1..Len(call[c].cpu) : call[c].cpu[k] \in 0..ValScale
            /\ \A k \in 1..Len(call[c].memory) : call[c].memory[k] \in 0..ValScale
            /\ \A k \in 1..Len(call[c].load) : call[c].load[k] \in 0..(100 * ValScale)

\* C20: metadata() returns, whatever the estimator state, exactly 3 input
\* descriptors whose names include memory_utilization, load_average_15m and
\* load_average_1m, and exactly 5 output descriptors named cpu_prediction,
\* prediction_variance, innovation, cpu_trend and model_confidence.
C20_MetadataNames ==
    LET md == metadata(initialized, observation_count)
        input_names == {md.inputs[k] : k \in 1..Len(md.inputs)}
        output_names == {md.outputs[k] : k \in 1..Len(md.outputs)}
    IN /\ Len(md.inputs) = 3
       /\ {"memory_utilization", "load_average_15m", "load_average_1m"} \subseteq input_names
       /\ Len(md.outputs) = 5
       /\ output_names = {"cpu_prediction", "prediction_variance", "innovation",
                          "cpu_trend", "model_confidence"}

\* C21: F and H hold their constructed values in every reachable state: from
\* load() on they are the matrices of _setup_kalman_filter, and no tick
\* (predict step, update step, hardening, noise adaptation) changes them.
C21_FAndHConstant ==
    /\ initialized => (F = F_seed /\ H = H_seed)
    /\ ~initialized => (F = <<>> /\ H = <<>>)

\* a tick whose adaptation has rewritten Q, with F and H as constructed
C21_Witness ==
    /\ AfterAdaptation
    /\ Q # Q_seed
    /\ F = F_seed /\ H = H_seed

\* C22: the transition Uninitialized -> Initialized is one-way: once load()
\* has set the initialized flag, no step of predict(), metadata() or the
\* adaptation, and no further load(), sets it back to false; and the flag
\* is set by load() alone.
C22_InitializedOneWay ==
    [][/\ initialized => initialized'
       /\ (~initialized /\ initialized') => loads' = loads + 1]_vars

\* a request served to its end after a second load()
C22_Witness ==
    /\ initialized
    /\ loads = 2
    /\ call[1].pc = "returned"
    /\ observation_count > 0

\* C23: apart from load(), which builds a new filter, x changes only within
\* a tick, and there x[0..3] are exactly what the filter's predict and
\* update steps produced from the tick's measurement: output clamping,
\* covariance hardening and noise adaptation write nothing to x (the stored
\* x[0] is not clamped to [0, 1]), and the only other write is to x[4].
C23_StateWrittenByFilterOnly ==
    [][\/ loads' # loads
       \/ x' = x
       \/ \E c \in Callers :
             /\ running = c
             /\ call[c].pc = "loop"
             /\ observation_count' = observation_count + 1
             /\ \E prior \in {PredictState(F, x)} :
                \E yv \in {Innovation(H, prior, call'[c].measurement)} :
                \E o \in UpdateOutcomes :
                \E post \in {UpdateState(prior, yv, o.K, P, Q, R)} :
                   \A k \in 1..4 : x'[k] = post[k]]_vars

\* a tick that emitted the clamped prediction 1.0 while the stored x[0] is
\* over 1.0
C23_Witness ==
    \E c \in Callers :
        /\ TickEnded(c)
        /\ x[1] # NaN /\ x[1] > ValScale
        /\ call[c].predictions[call[c].i] = ValScale

QMultiplier(yv) ==
    LET total == NAbs(yv[1]) + NAbs(yv[2]) + NAbs(yv[3])
    IN IF 10 * total > 3 * ValScale THEN 105
       ELSE IF 20 * total < 3 * ValScale THEN 98
       ELSE 100
ScaledBy(Qm, hundredths) ==
    [r \in 1..state_dim |-> [c \in 1..state_dim |->
        Qm[r][c] + Quot(Qm[r][c] * (hundredths - 100), 100)]]
Triggered == arrOut # <<>> /\ AdaptationRuns(arrIn.window) /\ ~HasNaNSeq(arrIn.y)

\* C25 as stated: at a triggered adaptation, with m the mean modulus of the
\* latest innovation, Q after the adaptation is 1.05 Q if m > 0.1, 0.98 Q if
\* m < 0.05, and Q itself if 0.05 <= m <= 0.1.
C25_QScaledByBand ==
    Triggered => arrOut[1] = ScaledBy(arrIn.Q, QMultiplier(arrIn.y))

\* C25, amended: at a triggered adaptation the scaling step multiplies Q by
\* 1.05 if m > 0.1, by 0.98 if m < 0.05 and by 1 otherwise; Q after the
\* adaptation is that product clipped elementwise to
\* [min_process_noise, max_process_noise], symmetrized and, if its smallest
\* eigenvalue is under min_process_noise, shifted up on the diagonal.  Where
\* the product lies within the bounds and no shift is made, the entry of Q
\* is exactly the product.
C25_QScaledThenSanitized ==
    Triggered =>
        LET scaled == ScaledBy(arrIn.Q, QMultiplier(arrIn.y))
            bounded == Symmetrize(ClipMatrix(scaled, min_process_noise, max_process_noise))
        IN /\ \E mineig \in MinEigenvalues(bounded) : arrOut[1] = RepairQ(bounded, mineig)
           /\ (\A mineig \in MinEigenvalues(bounded) : mineig >= min_process_noise) =>
                 \A r, c \in 1..state_dim :
                    (scaled[r][c] >= min_process_noise /\ scaled[r][c] <= max_process_noise)
                        => arrOut[1][r][c] = scaled[r][c]

\* an adaptation in the low band that shrank an entry of Q by exactly 0.98
C25_Witness ==
    /\ Triggered
    /\ QMultiplier(arrIn.y) = 98
    /\ arrIn.Q[1][1] = 5 * min_process_noise
    /\ arrOut[1][1][1] = arrIn.Q[1][1] - Quot(arrIn.Q[1][1], 50)

\* C26: within one batch the ticks are processed in input order, tick k
\* reading sample k of each series; the outputs of tick k are computed from
\* the Q and R that tick k - 1 left, and the adaptation check of tick k
\* changes Q and R only after them, so an adapted Q or R is first seen by
\* the outputs of tick k + 1.
C26_AdaptationAfterOutputs ==
    [][\A c \in Callers :
         (call[c].pc = "loop" /\ call'[c].pc = "loop" /\ call'[c].i # call[c].i) =>
            LET k == call'[c].i
            IN /\ k = call[c].i + 1
               /\ call'[c].measurement =
                     <<call[c].cpu[k], call[c].memory[k], call[c].load[k]>>
               /\ Len(call'[c].emitted) = k
               /\ \A j \in 1..(k - 1) : call'[c].emitted[j] = call[c].emitted[j]
               /\ \E o \in SteadyOutcomes :
                     call'[c].variances[k] =
                        ReportedVariance(UpdateCovariance(P, Q, R, o.P))
               /\ (Q' # Q \/ R' # R) =>
                     (AdaptationDue(observation_count') /\ AdaptationRuns(innovation_window'))]_vars

\* the tick after an adaptation that left a NaN in R: its variance is NaN,
\* while the variance of the adapting tick itself was finite
C26_Witness ==
    /\ observation_count = 2 * adaptation_interval + 1
    /\ HasNaN(R)
    /\ call[1].pc = "loop" /\ call[1].i = 1
    /\ call[1].variances[1] = NaN

\* C27: in every reachable state len(innovation_window) =
\* min(observation_count, 50); the window changes only in a step that
\* increments the counter, and a step that increments the counter appends
\* exactly one innovation, the one of that tick.
C27_WindowPairedWithCount ==
    /\ [](Len(innovation_window) =
            IF observation_count < window_maxlen THEN observation_count
            ELSE window_maxlen)
    /\ [][/\ innovation_window' # innovation_window =>
                observation_count' = observation_count + 1
          /\ observation_count' # observation_count =>
                /\ observation_count' = observation_count + 1
                /\ innovation_window'[Len(innovation_window')] = y'
                /\ \A k \in 1..(Len(innovation_window') - 1) :
                      innovation_window'[k] =
                         innovation_window[k + Len(innovation_window) + 1
                                             - Len(innovation_window')]]_vars

\* a full window that holds innovations with NaN, past the fiftieth tick
C27_Witness ==
    /\ observation_count > window_maxlen
    /\ Len(innovation_window) = window_maxlen
    /\ \E k \in 1..window_maxlen : HasNaNSeq(innovation_window[k])

\* C28: a predict() call that raises (on an uninitialized model, on a wrong
\* number of inputs, or on a memory or load series shorter than the CPU
\* series) leaves x, P, Q, R, the innovation window and observation_count
\* exactly as they were when the call started: the call raises before it
\* has processed any tick (a processed tick has changed them), and the step
\* that raises changes none of them.
C28_RaisingCallLeavesEstimator ==
    [][\A c \in Callers :
         (call[c].pc # "raised" /\ call'[c].pc = "raised") =>
            /\ call[c].i = 0
            /\ UNCHANGED <<x, P, Q, R, innovation_window, observation_count>>]_vars

\* C29: load() on a model already in use sets x, P, Q, R, F and H to their
\* seed values and leaves observation_count and the innovation window as
\* they are; so the window keeps the innovations from before the reload,
\* the adaptation is triggered at the next multiple of 10 of the running
\* count provided the window holds 20 innovations, whenever they were
\* produced, and the R it leaves is computed from that window.
C29_ReloadKeepsCountAndWindow ==
    /\ [][loads' # loads =>
            /\ x' = x_seed /\ P' = P_seed /\ Q' = Q_seed /\ R' = R_seed
            /\ F' = F_seed /\ H' = H_seed
            /\ observation_count' = observation_count
            /\ innovation_window' = innovation_window]_vars
    /\ [](\A c \in Callers :
             (TickEnded(c) /\ AdaptationDue(observation_count)
                 /\ observation_count >= min_observations_for_adaptation)
                => AdaptationRuns(innovation_window))
    /\ [][(observation_count' = observation_count + 1
              /\ AdaptationDue(observation_count')
              /\ AdaptationRuns(innovation_window')
              /\ \E c \in Callers : call'[c].pc = "loop")
            => R' = FloorR(BlendR(R, innovation_cov(innovation_window')))]_vars

\* the adaptation of tick 20 after a reload between the first batch and the
\* second: tick BatchLen + 1 restarted from the seed state, so its
\* innovation repeats that of tick 1, which is still in the window
C29_Witness ==
    /\ loads = 2
    /\ observation_count = min_observations_for_adaptation
    /\ TickEnded(1)
    /\ R # R_seed
    /\ innovation_window[BatchLen + 1] = innovation_window[1]
    /\ innovation_window[BatchLen + 2] # innovation_window[BatchLen + 1]

====
